---- MODULE Spec2Model ----
(***************************************************************************)
(* Asynchronous transfer core of usb1.py: USBTransfer (one native transfer *)
(* and its submitted/initialized/callback fields), USBTransferHelper (the  *)
(* status -> callback dispatch table with resubmission) and the native     *)
(* libusb layer they call (submission, cancellation, completion delivery). *)
(* Also the synchronous transfers of USBDeviceHandle, as far as the        *)
(* endpoint they hand to the native layer goes, and USBPoller with the     *)
(* context's pollfd list, notifiers and timeouts and the multiplexer it    *)
(* is given; what handleEventsTimeout delivers is left to the transfers.   *)
(*                                                                         *)
(* One USBTransfer instance and at most one USBTransferHelper wrapping it  *)
(* are modelled; instances do not share fields.  A Python exception is the *)
(* value of last.err after the step of the method that raised it.          *)
(***************************************************************************)
EXTENDS Integers, FiniteSets, Sequences, TLC

\* Largest data length (or string length) a caller passes as buffer_or_len.
MaxLen == 1

None == "None"

\* Transfer status codes; EVENT_CALLBACK_SET is the frozenset of usb1.py.
LIBUSB_TRANSFER_COMPLETED == "COMPLETED"
LIBUSB_TRANSFER_ERROR     == "ERROR"
LIBUSB_TRANSFER_TIMED_OUT == "TIMED_OUT"
LIBUSB_TRANSFER_CANCELLED == "CANCELLED"
LIBUSB_TRANSFER_STALL     == "STALL"
LIBUSB_TRANSFER_NO_DEVICE == "NO_DEVICE"
LIBUSB_TRANSFER_OVERFLOW  == "OVERFLOW"

EVENT_CALLBACK_SET ==
    { LIBUSB_TRANSFER_COMPLETED, LIBUSB_TRANSFER_ERROR,
      LIBUSB_TRANSFER_TIMED_OUT, LIBUSB_TRANSFER_CANCELLED,
      LIBUSB_TRANSFER_STALL, LIBUSB_TRANSFER_NO_DEVICE,
      LIBUSB_TRANSFER_OVERFLOW }

\* The initial fallback of a helper: lambda x, y: False.  It takes two
\* arguments; the callbacks of the documented callback API take one.
DEFAULT_ASYNC_TRANSFER_ERROR_CALLBACK == "DEFAULT"
DEFAULT_ASYNC_TRANSFER_ERROR_CALLBACK_args == 2

\* Number of positional arguments callable cb takes.
CallbackArgs(cb) ==
    IF cb = DEFAULT_ASYNC_TRANSFER_ERROR_CALLBACK
      THEN DEFAULT_ASYNC_TRANSFER_ERROR_CALLBACK_args
      ELSE 1

\* Native return codes: 0 is success, anything else is raised as USBError.
LIBUSB_ERROR_NO_DEVICE == -4
LIBUSB_ERROR_NOT_FOUND == -5
LIBUSB_ERROR_BUSY      == -6

LIBUSB_CONTROL_SETUP_SIZE == 8

\* Direction bit of an endpoint address or bmRequestType.
USB_ENDPOINT_DIR_MASK == 128
LIBUSB_ENDPOINT_IN    == 128
LIBUSB_ENDPOINT_OUT   == 0

\* Inputs of the callers.
HelperCallbacks   == {"cbA", "cbB"}
RegEvents         == {LIBUSB_TRANSFER_STALL, "BOGUS"}
DeliveredStatuses == {LIBUSB_TRANSFER_COMPLETED, LIBUSB_TRANSFER_CANCELLED,
                      LIBUSB_TRANSFER_STALL, LIBUSB_TRANSFER_NO_DEVICE}
Lengths           == 0..MaxLen
Endpoints         == {1, 129}
\* The endpoint of the transfer where the direction is not in question.
OneEndpoint       == {129}

\* An optional duration in seconds: Absent is Python's None.
Absent     == <<>>
Present(t) == <<t>>

\* Largest caller timeout and largest pending native timeout of a poll().
MaxTime   == 2
\* Longest event list the multiplexer returns from one poll().
MaxEvents == 2

\* File descriptors of the native engine and of the caller's own sources;
\* poll event flags; USBPoller instances.
USBFDs     == {3, 4}
ForeignFDs == {5}
Events     == {"POLLIN", "POLLOUT"}
Bridges    == {"b1", "b2"}
Timeouts   == {Absent} \cup {Present(t) : t \in 0..MaxTime}

VARIABLES
    initialized,          \* USBTransfer.__initialized
    submitted,            \* USBTransfer.__submitted
    callback,             \* USBTransfer.__callback
    xfer_type,            \* native struct: transfer.type
    buffer,               \* native struct: sizeof of the buffer, transfer.length
    xfer_status,          \* native struct: transfer.status
    inflight,             \* native layer holds an accepted, uncompleted operation
    cancelling,           \* native layer accepted a cancel of that operation
    helper,               \* USBTransferHelper instance: none / partial / alive
    event_callback_dict,  \* USBTransferHelper.__event_callback_dict
    errorCallback,        \* USBTransferHelper.__errorCallback
    pc,                   \* idle, or which user callback frame is running
    last,                 \* the last method call: its name and how it ended
    ctx_fds,              \* native engine: its pollfd set, fd -> events
    notifiers,            \* context: the USBPoller the engine notifies, or None
    constructed,          \* per USBPoller: __init__ has run
    fd_set,               \* per USBPoller: __fd_set
    mux,                  \* per USBPoller: registrations of __poller, fd -> events
    plast,                \* the last USBPoller or engine step and how it ended
    transfer_p,           \* USBTransfer.__transfer: allocated, or freed
    handling              \* a poll() is inside handleEventsTimeout

transferVars == <<initialized, submitted, callback, xfer_type, buffer,
                  xfer_status, inflight, cancelling, helper,
                  event_callback_dict, errorCallback, pc, last>>
pollVars     == <<ctx_fds, notifiers, constructed, fd_set, mux, plast>>

lifeVars     == <<transfer_p, handling>>

vars == <<transferVars, pollVars, lifeVars>>

transferFields == <<initialized, submitted, callback, xfer_type, buffer>>
nativeState    == <<xfer_status, inflight, cancelling>>
helperFields   == <<helper, event_callback_dict, errorCallback>>

\* How a call ended: the exception raised ("ok": none), the code a USBError
\* carries, the native function the call reached and what that returned,
\* the number of submit() calls a dispatcher made, the callback a completion
\* was handed to, the value a user callback returned, an argument of the call
\* (the event of setEventCallback, the read/write intent of a transfer
\* set-up) and the endpoint or request type the call handed to the native
\* layer, with the one the caller gave (-1: none).
Outcome(op, err, code, native) ==
    [op |-> op, err |-> err, code |-> code, native |-> native,
     nret |-> IF native = "none" THEN 0 ELSE code,
     resub |-> 0, invoked |-> "none", ret |-> "none",
     arg |-> "none", given |-> -1, endpoint |-> -1]

\* Outcome of a call that reached the native function, which returned nret.
NativeOutcome(op, err, code, native, nret) ==
    [Outcome(op, err, code, native) EXCEPT !.nret = nret]

\* Outcome of a transfer set-up or synchronous transfer that handed
\* endpoint (or request type) ep to the native layer; a string buffer is
\* data to send (a write), a length is room for data to receive (a read).
EndpointOutcome(op, err, code, native, isStr, given, ep) ==
    [Outcome(op, err, code, native)
        EXCEPT !.arg = IF isStr THEN "write" ELSE "read",
               !.given = given, !.endpoint = ep]

\* sizeof(create_string_buffer(x)): a string gets a terminating NUL.
\* How a USBPoller call or a notification of the native engine ended: the
\* poller concerned, the exception raised, the caller's timeout, the
\* pending native timeout, the timeout handed to the multiplexer, the
\* event list the multiplexer returned, the list poll() returned, the calls
\* made on the context and on the multiplexer in order, and the descriptor
\* and flags of a registration or notification.
PollOutcome(op, b, err) ==
    [op |-> op, bridge |-> b, err |-> err,
     timeout |-> Absent, next |-> Absent, passed |-> Absent,
     events |-> <<>>, result |-> <<>>, calls |-> <<>>,
     fd |-> -1, flags |-> "none"]

create_string_buffer(n, isStr) == IF isStr THEN n + 1 ELSE n

----
\* The native layer (libusb), as the wrapper's calls see it.

\* libusb_submit_transfer: an operation already in flight is refused.
NativeSubmitResults ==
    IF inflight THEN {LIBUSB_ERROR_BUSY} ELSE {0, LIBUSB_ERROR_NO_DEVICE}

\* libusb_cancel_transfer: nothing in flight is "not found"; an operation
\* that finished but whose completion is not delivered yet is too.
NativeCancelResults ==
    IF inflight THEN {0, LIBUSB_ERROR_NOT_FOUND, LIBUSB_ERROR_NO_DEVICE}
    ELSE {LIBUSB_ERROR_NOT_FOUND}

----
\* USBTransfer

Init ==
    /\ initialized = FALSE
    /\ submitted = FALSE
    /\ callback = None
    /\ xfer_type = "control"
    /\ buffer = 0
    /\ xfer_status = LIBUSB_TRANSFER_COMPLETED
    /\ inflight = FALSE
    /\ cancelling = FALSE
    /\ helper = "none"
    /\ event_callback_dict = <<>>
    /\ errorCallback = DEFAULT_ASYNC_TRANSFER_ERROR_CALLBACK
    /\ pc = "idle"
    /\ last = Outcome("init", "ok", 0, "none")
    /\ ctx_fds = <<>>
    /\ notifiers = None
    /\ constructed = [b \in Bridges |-> FALSE]
    /\ fd_set = [b \in Bridges |-> {}]
    /\ mux = [b \in Bridges |-> <<>>]
    /\ plast = PollOutcome("init", None, "ok")
    /\ transfer_p = "allocated"
    /\ handling = FALSE

\* Variant: close() without the check of __submitted.
close_unguarded ==
    /\ initialized' = FALSE
    /\ callback' = None
    /\ last' = Outcome("close", "ok", 0, "none")
    /\ UNCHANGED <<submitted, xfer_type, buffer, nativeState, helperFields, pc>>

\* Variant: close() that clears __initialized only.
close_keeps_callback ==
    /\ IF submitted
         THEN /\ last' = Outcome("close", "ValueError", 0, "none")
              /\ UNCHANGED <<initialized, callback>>
         ELSE /\ initialized' = FALSE
              /\ last' = Outcome("close", "ok", 0, "none")
              /\ UNCHANGED callback
    /\ UNCHANGED <<submitted, xfer_type, buffer, nativeState, helperFields, pc>>

\* Variant: close() that clears the callback only.
close_keeps_initialized ==
    /\ IF submitted
         THEN /\ last' = Outcome("close", "ValueError", 0, "none")
              /\ UNCHANGED <<initialized, callback>>
         ELSE /\ callback' = None
              /\ last' = Outcome("close", "ok", 0, "none")
              /\ UNCHANGED initialized
    /\ UNCHANGED <<submitted, xfer_type, buffer, nativeState, helperFields, pc>>

close ==
    /\ IF submitted
         THEN /\ last' = Outcome("close", "ValueError", 0, "none")
              /\ UNCHANGED <<initialized, callback>>
         ELSE /\ initialized' = FALSE
              /\ callback' = None
              /\ last' = Outcome("close", "ok", 0, "none")
    /\ UNCHANGED <<submitted, xfer_type, buffer, nativeState, helperFields, pc>>

setCallback(cb) ==
    /\ IF submitted
         THEN /\ last' = Outcome("setCallback", "ValueError", 0, "none")
              /\ UNCHANGED callback
         ELSE /\ callback' = cb
              /\ last' = Outcome("setCallback", "ok", 0, "none")
    /\ UNCHANGED <<initialized, submitted, xfer_type, buffer, nativeState,
                   helperFields, pc>>

setControl(ep, n, isStr, cb) ==
    /\ IF submitted
         THEN /\ last' = Outcome("setControl", "ValueError", 0, "none")
              /\ UNCHANGED <<initialized, callback, xfer_type, buffer>>
         ELSE /\ xfer_type' = "control"
              /\ buffer' = IF isStr
                             THEN create_string_buffer(
                                      LIBUSB_CONTROL_SETUP_SIZE + n, TRUE)
                             ELSE create_string_buffer(
                                      n + LIBUSB_CONTROL_SETUP_SIZE, FALSE)
              /\ callback' = cb
              /\ initialized' = TRUE
              /\ last' = EndpointOutcome("setControl", "ok", 0, "none", isStr, ep, ep)
    /\ UNCHANGED <<submitted, nativeState, helperFields, pc>>

setBulk(ep, n, isStr, cb) ==
    /\ IF submitted
         THEN /\ last' = Outcome("setBulk", "ValueError", 0, "none")
              /\ UNCHANGED <<initialized, callback, xfer_type, buffer>>
         ELSE /\ xfer_type' = "bulk"
              /\ buffer' = create_string_buffer(n, isStr)
              /\ callback' = cb
              /\ initialized' = TRUE
              /\ last' = EndpointOutcome("setBulk", "ok", 0, "none", isStr, ep, ep)
    /\ UNCHANGED <<submitted, nativeState, helperFields, pc>>

setInterrupt(ep, n, isStr, cb) ==
    /\ IF submitted
         THEN /\ last' = Outcome("setInterrupt", "ValueError", 0, "none")
              /\ UNCHANGED <<initialized, callback, xfer_type, buffer>>
         ELSE /\ xfer_type' = "interrupt"
              /\ buffer' = create_string_buffer(n, isStr)
              /\ callback' = cb
              /\ initialized' = TRUE
              /\ last' = EndpointOutcome("setInterrupt", "ok", 0, "none", isStr, ep, ep)
    /\ UNCHANGED <<submitted, nativeState, helperFields, pc>>

\* Variant: setIsochronous that raises NotImplementedError in every state.
setIsochronous_unguarded ==
    /\ last' = Outcome("setIsochronous", "NotImplementedError", 0, "none")
    /\ UNCHANGED <<transferFields, nativeState, helperFields, pc>>

setIsochronous ==
    /\ last' = Outcome("setIsochronous",
                       IF submitted THEN "ValueError" ELSE "NotImplementedError",
                       0, "none")
    /\ UNCHANGED <<transferFields, nativeState, helperFields, pc>>

setBuffer(n, isStr) ==
    /\ IF submitted
         THEN /\ last' = Outcome("setBuffer", "ValueError", 0, "none")
              /\ UNCHANGED buffer
         ELSE /\ buffer' = IF xfer_type = "control"
                             THEN IF isStr
                                    THEN create_string_buffer(
                                             LIBUSB_CONTROL_SETUP_SIZE + n, TRUE)
                                    ELSE n + LIBUSB_CONTROL_SETUP_SIZE
                             ELSE create_string_buffer(n, isStr)
              /\ last' = Outcome("setBuffer", "ok", 0, "none")
    /\ UNCHANGED <<initialized, submitted, callback, xfer_type, nativeState,
                   helperFields, pc>>

\* Variant: submit() without the check of __initialized.
submit_result_no_initialized_check(op, r) ==
    IF callback = None
      THEN [out |-> Outcome(op, "ValueError", 0, "none"), sub |-> submitted]
    ELSE IF r # 0
      THEN [out |-> NativeOutcome(op, "USBError", r, "submit", r), sub |-> submitted]
    ELSE [out |-> NativeOutcome(op, "ok", 0, "submit", r), sub |-> TRUE]

\* Variant: submit() without the check of __callback.
submit_result_no_callback_check(op, r) ==
    IF ~initialized
      THEN [out |-> Outcome(op, "ValueError", 0, "none"), sub |-> submitted]
    ELSE IF r # 0
      THEN [out |-> NativeOutcome(op, "USBError", r, "submit", r), sub |-> submitted]
    ELSE [out |-> NativeOutcome(op, "ok", 0, "submit", r), sub |-> TRUE]

\* Variant: submit() sets __submitted before it looks at the native result.
submit_result_flag_first(op, r) ==
    IF ~initialized
      THEN [out |-> Outcome(op, "ValueError", 0, "none"), sub |-> submitted]
    ELSE IF callback = None
      THEN [out |-> Outcome(op, "ValueError", 0, "none"), sub |-> submitted]
    ELSE IF r # 0
      THEN [out |-> NativeOutcome(op, "USBError", r, "submit", r), sub |-> TRUE]
    ELSE [out |-> NativeOutcome(op, "ok", 0, "submit", r), sub |-> TRUE]

\* The body of USBTransfer.submit, r being what libusb_submit_transfer
\* returns if it is reached.
submit_result(op, r) ==
    IF ~initialized
      THEN [out |-> Outcome(op, "ValueError", 0, "none"), sub |-> submitted]
    ELSE IF callback = None
      THEN [out |-> Outcome(op, "ValueError", 0, "none"), sub |-> submitted]
    ELSE IF r # 0
      THEN [out |-> NativeOutcome(op, "USBError", r, "submit", r), sub |-> submitted]
    ELSE [out |-> NativeOutcome(op, "ok", 0, "submit", r), sub |-> TRUE]

\* Variant: cancel() that treats "not found" as success.
cancel_result_not_found_ok(op, r) ==
    IF r # 0 /\ r # LIBUSB_ERROR_NOT_FOUND
      THEN [out |-> NativeOutcome(op, "USBError", r, "cancel", r), sub |-> submitted]
      ELSE [out |-> NativeOutcome(op, "ok", 0, "cancel", r), sub |-> FALSE]

\* The body of USBTransfer.cancel, r being what libusb_cancel_transfer returns.
cancel_result(op, r) ==
    IF r # 0
      THEN [out |-> NativeOutcome(op, "USBError", r, "cancel", r), sub |-> submitted]
      ELSE [out |-> NativeOutcome(op, "ok", 0, "cancel", r), sub |-> FALSE]

submit(r) ==
    LET res == submit_result("submit", r) IN
    /\ submitted' = res.sub
    /\ inflight' = (inflight \/ (res.out.native = "submit" /\ r = 0))
    /\ last' = res.out
    /\ UNCHANGED <<initialized, callback, xfer_type, buffer, xfer_status,
                   cancelling, helperFields, pc>>

cancel(r) ==
    LET res == cancel_result("cancel", r) IN
    /\ submitted' = res.sub
    /\ cancelling' = (cancelling \/ r = 0)
    /\ last' = res.out
    /\ UNCHANGED <<initialized, callback, xfer_type, buffer, xfer_status,
                   inflight, helperFields, pc>>

\* Variant: __del__ without the finally clause: an error of cancel() that
\* is let out skips libusb_free_transfer.
Transfer_del_no_finally(r) ==
    LET res == cancel_result("Transfer_del", r) IN
    /\ transfer_p = "allocated"
    /\ pc = "idle"
    /\ helper # "alive"
    /\ submitted' = res.sub
    /\ cancelling' = (cancelling \/ r = 0)
    /\ last' = IF r = LIBUSB_ERROR_NOT_FOUND
                 THEN NativeOutcome("Transfer_del", "ok", 0, "cancel", r)
                 ELSE res.out
    /\ transfer_p' = IF r \in {0, LIBUSB_ERROR_NOT_FOUND}
                       THEN "freed" ELSE transfer_p
    /\ UNCHANGED <<initialized, callback, xfer_type, buffer, xfer_status,
                   inflight, helperFields, pc, handling>>

\* USBTransfer.__del__ of an instance whose __transfer is set: cancel(),
\* whose USBError is let out unless it is "not found", and in every case
\* libusb_free_transfer.  It runs once, when nothing refers to the
\* instance: no helper wraps it and no callback frame holds it.
Transfer_del(r) ==
    LET res == cancel_result("Transfer_del", r) IN
    /\ transfer_p = "allocated"
    /\ pc = "idle"
    /\ helper # "alive"
    /\ submitted' = res.sub
    /\ cancelling' = (cancelling \/ r = 0)
    /\ last' = IF r = LIBUSB_ERROR_NOT_FOUND
                 THEN NativeOutcome("Transfer_del", "ok", 0, "cancel", r)
                 ELSE res.out
    /\ transfer_p' = "freed"
    /\ UNCHANGED <<initialized, callback, xfer_type, buffer, xfer_status,
                   inflight, helperFields, pc, handling>>

----
\* USBTransferHelper

\* Callbacks a caller can hand to the transfer: the helper's bound method
\* exists (transfer.getCallback() returns it) only while a helper is alive.
CallbackInputs ==
    {None, "userCb"} \cup (IF helper = "alive" THEN {"dispatcher"} ELSE {})

\* Variant: a constructor that leaves the transfer's callback as it is.
Helper_init_keeps_callback ==
    /\ helper = "none"
    /\ IF submitted
         THEN /\ helper' = "partial"
              /\ last' = Outcome("Helper_init", "ValueError", 0, "none")
              /\ UNCHANGED <<event_callback_dict, errorCallback>>
         ELSE /\ event_callback_dict' = <<>>
              /\ errorCallback' = DEFAULT_ASYNC_TRANSFER_ERROR_CALLBACK
              /\ helper' = "alive"
              /\ last' = Outcome("Helper_init", "ok", 0, "none")
    /\ UNCHANGED <<transferFields, nativeState, pc>>

Helper_init ==
    /\ helper = "none"
    /\ IF submitted
         THEN /\ helper' = "partial"
              /\ last' = Outcome("Helper_init", "ValueError", 0, "none")
              /\ UNCHANGED <<callback, event_callback_dict, errorCallback>>
         ELSE /\ callback' = "dispatcher"
              /\ event_callback_dict' = <<>>
              /\ errorCallback' = DEFAULT_ASYNC_TRANSFER_ERROR_CALLBACK
              /\ helper' = "alive"
              /\ last' = Outcome("Helper_init", "ok", 0, "none")
    /\ UNCHANGED <<initialized, submitted, xfer_type, buffer, nativeState, pc>>

Helper_submit(r) ==
    LET res == submit_result("Helper_submit", r) IN
    /\ helper = "alive"
    /\ submitted' = res.sub
    /\ inflight' = (inflight \/ (res.out.native = "submit" /\ r = 0))
    /\ last' = res.out
    /\ UNCHANGED <<initialized, callback, xfer_type, buffer, xfer_status,
                   cancelling, helperFields, pc>>

Helper_cancel(r) ==
    LET res == cancel_result("Helper_cancel", r) IN
    /\ helper = "alive"
    /\ submitted' = res.sub
    /\ cancelling' = (cancelling \/ r = 0)
    /\ last' = res.out
    /\ UNCHANGED <<initialized, callback, xfer_type, buffer, xfer_status,
                   inflight, helperFields, pc>>

\* Variant: setEventCallback without the check against EVENT_CALLBACK_SET.
setEventCallback_unchecked(event, cb) ==
    /\ helper = "alive"
    /\ event_callback_dict' =
          [e \in DOMAIN event_callback_dict \cup {event} |->
              IF e = event THEN cb ELSE event_callback_dict[e]]
    /\ last' = [Outcome("setEventCallback", "ok", 0, "none") EXCEPT !.arg = event]
    /\ UNCHANGED <<transferFields, nativeState, helper, errorCallback, pc>>

setEventCallback(event, cb) ==
    /\ helper = "alive"
    /\ IF event \notin EVENT_CALLBACK_SET
         THEN /\ last' = [Outcome("setEventCallback", "ValueError", 0, "none")
                             EXCEPT !.arg = event]
              /\ UNCHANGED event_callback_dict
         ELSE /\ event_callback_dict' =
                    [e \in DOMAIN event_callback_dict \cup {event} |->
                        IF e = event THEN cb ELSE event_callback_dict[e]]
              /\ last' = [Outcome("setEventCallback", "ok", 0, "none")
                             EXCEPT !.arg = event]
    /\ UNCHANGED <<transferFields, nativeState, helper, errorCallback, pc>>

setDefaultCallback(cb) ==
    /\ helper = "alive"
    /\ errorCallback' = cb
    /\ last' = Outcome("setDefaultCallback", "ok", 0, "none")
    /\ UNCHANGED <<transferFields, nativeState, helper, event_callback_dict, pc>>

getEventCallback(event, default) ==
    IF event \in DOMAIN event_callback_dict
      THEN event_callback_dict[event]
      ELSE default

\* Variant: __del__ that lets "not found" out like any other native error.
Helper_del_raises_not_found(r) ==
    LET res == cancel_result("Helper_del", r) IN
    /\ \/ helper = "partial"
       \/ helper = "alive" /\ callback # "dispatcher" /\ pc # "in_dispatch_callback"
    /\ submitted' = res.sub
    /\ cancelling' = (cancelling \/ r = 0)
    /\ last' = res.out
    /\ helper' = "none"
    /\ event_callback_dict' = <<>>
    /\ errorCallback' = DEFAULT_ASYNC_TRANSFER_ERROR_CALLBACK
    /\ UNCHANGED <<initialized, callback, xfer_type, buffer, xfer_status,
                   inflight, pc>>

\* The helper is collected once nothing refers to it: its bound method is
\* not the transfer's callback and no frame of its dispatcher is running.
\* A helper whose constructor raised is collected too.
Helper_del(r) ==
    LET res == cancel_result("Helper_del", r) IN
    /\ \/ helper = "partial"
       \/ helper = "alive" /\ callback # "dispatcher" /\ pc # "in_dispatch_callback"
    /\ submitted' = res.sub
    /\ cancelling' = (cancelling \/ r = 0)
    /\ last' = IF r = LIBUSB_ERROR_NOT_FOUND
                 THEN NativeOutcome("Helper_del", "ok", 0, "cancel", r)
                 ELSE res.out
    /\ helper' = "none"
    /\ event_callback_dict' = <<>>
    /\ errorCallback' = DEFAULT_ASYNC_TRANSFER_ERROR_CALLBACK
    /\ UNCHANGED <<initialized, callback, xfer_type, buffer, xfer_status,
                   inflight, pc>>

----
\* Completion delivery: the context's event handling makes the native layer
\* call the transfer's trampoline.

\* Variant: the dispatcher calls whatever callback is registered, whatever
\* status it was registered for.
dispatch_target_any_registered(status) ==
    IF DOMAIN event_callback_dict # {}
      THEN event_callback_dict[CHOOSE e \in DOMAIN event_callback_dict : TRUE]
      ELSE errorCallback

\* The callback __callbackDispatcher hands the completion to.
dispatch_target(status) == getEventCallback(status, errorCallback)

\* Variant: the trampoline does not touch __submitted.
callbackWrapper_keeps_submitted == submitted

\* What the trampoline leaves in __submitted before it calls the callback.
callbackWrapper_submitted == FALSE

\* USBTransfer.__callbackWrapper, up to the point where user code runs.
\* The callback is called with one argument, the transfer: calling None, or
\* a callable that takes another number of arguments, raises TypeError.
callbackWrapper(status) ==
    /\ pc = "idle"
    /\ inflight
    /\ status = LIBUSB_TRANSFER_CANCELLED => cancelling
    /\ inflight' = FALSE
    /\ cancelling' = FALSE
    /\ xfer_status' = status
    /\ submitted' = callbackWrapper_submitted
    /\ IF callback = None
         THEN /\ pc' = "idle"
              /\ last' = Outcome("callbackWrapper", "TypeError", 0, "none")
         ELSE IF callback = "userCb"
         THEN /\ pc' = "in_user_callback"
              /\ last' = [Outcome("callbackWrapper", "ok", 0, "none")
                             EXCEPT !.invoked = "userCb"]
         ELSE LET cb == dispatch_target(status) IN
              IF CallbackArgs(cb) # 1
                THEN /\ pc' = "idle"
                     /\ last' = [Outcome("callbackWrapper", "TypeError", 0, "none")
                                    EXCEPT !.invoked = cb]
                ELSE /\ pc' = "in_dispatch_callback"
                     /\ last' = [Outcome("callbackWrapper", "ok", 0, "none")
                                    EXCEPT !.invoked = cb]
    /\ UNCHANGED <<initialized, callback, xfer_type, buffer, helperFields>>

\* Variant: the dispatcher submits again whatever the callback returned.
dispatcher_resubmits_always(ret) == TRUE

\* Whether __callbackDispatcher calls self.submit() once the callback returned.
dispatcher_resubmits(ret) == ret

\* The user callback returns ret.  A transfer callback's value is ignored;
\* the dispatcher submits again when its callback returned true.
callbackReturn(ret, r) ==
    LET retName == IF ret THEN "true" ELSE "false" IN
    /\ pc # "idle"
    /\ pc' = "idle"
    /\ IF pc = "in_dispatch_callback" /\ dispatcher_resubmits(ret)
         THEN LET res == submit_result("callbackReturn", r) IN
              /\ submitted' = res.sub
              /\ inflight' = (inflight \/ (res.out.native = "submit" /\ r = 0))
              /\ last' = [res.out EXCEPT !.resub = 1, !.ret = retName]
         ELSE /\ last' = [Outcome("callbackReturn", "ok", 0, "none")
                             EXCEPT !.ret = retName]
              /\ UNCHANGED <<submitted, inflight>>
    /\ UNCHANGED <<initialized, callback, xfer_type, buffer, xfer_status,
                   cancelling, helperFields>>

----
\* USBDeviceHandle: synchronous transfers

\* Variant: the direction is or-ed in without clearing the caller's bit.
ForceDirection_or_only(ep, dir) ==
    IF (ep \div USB_ENDPOINT_DIR_MASK) % 2 = 1 THEN ep ELSE ep + dir

\* (ep & ~USB_ENDPOINT_DIR_MASK) | dir, dir being LIBUSB_ENDPOINT_IN or _OUT.
ForceDirection(ep, dir) ==
    (ep - ((ep \div USB_ENDPOINT_DIR_MASK) % 2) * USB_ENDPOINT_DIR_MASK) + dir

\* A synchronous transfer that hands endpoint (or request type) ep to the
\* native call, which returns r: a failure is raised as USBError(r).  A
\* bulk or interrupt transfer fails on a result other than 0, a control
\* transfer on a negative one (it returns the number of bytes otherwise).
SyncTransfer(op, isWrite, given, ep, r, failed) ==
    /\ last' = [EndpointOutcome(op, IF failed THEN "USBError" ELSE "ok", r,
                                "sync", isWrite, given, ep)
                   EXCEPT !.nret = r]
    /\ UNCHANGED <<transferFields, nativeState, helperFields, pc>>

controlWrite(request_type, r) ==
    SyncTransfer("controlWrite", TRUE, request_type,
                 ForceDirection(request_type, LIBUSB_ENDPOINT_OUT),
                 r, r < 0)

controlRead(request_type, r) ==
    SyncTransfer("controlRead", FALSE, request_type,
                 ForceDirection(request_type, LIBUSB_ENDPOINT_IN),
                 r, r < 0)

bulkWrite(endpoint, r) ==
    SyncTransfer("bulkWrite", TRUE, endpoint,
                 ForceDirection(endpoint, LIBUSB_ENDPOINT_OUT), r, r # 0)

bulkRead(endpoint, r) ==
    SyncTransfer("bulkRead", FALSE, endpoint,
                 ForceDirection(endpoint, LIBUSB_ENDPOINT_IN), r, r # 0)

interruptWrite(endpoint, r) ==
    SyncTransfer("interruptWrite", TRUE, endpoint,
                 ForceDirection(endpoint, LIBUSB_ENDPOINT_OUT), r, r # 0)

interruptRead(endpoint, r) ==
    SyncTransfer("interruptRead", FALSE, endpoint,
                 ForceDirection(endpoint, LIBUSB_ENDPOINT_IN), r, r # 0)

\* What a synchronous native transfer returns: success or a failure.
NativeSyncResults == {0, LIBUSB_ERROR_NO_DEVICE}

----
\* USBPoller, the LibUSBContext calls it makes, the multiplexer it is given
\* and the native engine's pollfd notifications

Put(f, k, v) == [x \in DOMAIN f \cup {k} |-> IF x = k THEN v ELSE f[x]]
Drop(f, k)   == [x \in DOMAIN f \ {k} |-> f[x]]

\* LibUSBContext.getPollFDList: the engine's (fd, events) pairs as a list.
RECURSIVE getPollFDList(_)
getPollFDList(f) ==
    IF DOMAIN f = {} THEN <<>>
    ELSE LET fd == CHOOSE x \in DOMAIN f : \A y \in DOMAIN f : x <= y
         IN  <<<<fd, f[fd]>>>> \o getPollFDList(Drop(f, fd))

\* LibUSBContext.getNextTimeout on native result nr and timeval tv: None
\* when no timeout is pending, the timeval in seconds when one is; any
\* other native result is raised as USBError.
getNextTimeout_raises(nr) == nr \notin {0, 1}
getNextTimeout(nr, tv)    == IF nr = 0 THEN Absent ELSE Present(tv)

\* What libusb_get_next_timeout returns: result and timeval.
NativeTimeouts ==
    {<<0, 0>>, <<LIBUSB_ERROR_NO_DEVICE, 0>>} \cup {<<1, tv>> : tv \in 0..MaxTime}

\* What libusb_handle_events_timeout returns.
NativeHandleResults == {0, LIBUSB_ERROR_NO_DEVICE}

\* Python's "x or y" on optional durations: None and 0 are false.
PyOr(x, y) == IF x = Absent \/ x = Present(0) THEN y ELSE x

\* The timeout poll() hands to the multiplexer.
usb_timeout(timeout, next_usb_timeout) ==
    IF timeout = Absent
      THEN next_usb_timeout
      ELSE LET a == PyOr(next_usb_timeout, timeout)
           IN  IF a[1] < timeout[1] THEN a ELSE timeout

\* Variant: poll() returns the multiplexer's list as it is.
poll_result_unfiltered(event_list, fds) == event_list

\* [(x, y) for x, y in event_list if x not in fd_set]
poll_result(event_list, fds) ==
    SelectSeq(event_list, LAMBDA e : e[1] \notin fds)

\* Variant: poll() handles events in every cycle.
poll_handles_always(event_list, result) == TRUE

\* Whether poll() calls handleEventsTimeout.
poll_handles(event_list, result) ==
    IF Len(event_list) # 0
      THEN Len(result) # Len(event_list)
      ELSE TRUE

\* The lists a multiplexer with registrations m may return from poll():
\* each registered descriptor at most once, with its flags.
EventLists(m) ==
    LET n == IF Cardinality(DOMAIN m) < MaxEvents
               THEN Cardinality(DOMAIN m) ELSE MaxEvents
        picks == UNION {[1..k -> DOMAIN m] : k \in 0..n}
    IN  {[i \in DOMAIN s |-> <<s[i], m[s[i]]>>] :
            s \in {q \in picks : \A i, j \in DOMAIN q : q[i] = q[j] => i = j}}

\* The fields of one USBPoller that its handlers change.
PollerState(b) == [fd_set |-> fd_set[b], mux |-> mux[b]]

\* Variant: _unregisterFD that leaves __fd_set as it is.
unregisterFD_keeps_fd_set(st, fd) ==
    IF fd \in DOMAIN st.mux
      THEN [st EXCEPT !.mux = Drop(st.mux, fd)]
      ELSE st

\* Variant: _registerFD that does not reach the multiplexer.
registerFD_no_register(st, fd, events) ==
    [st EXCEPT !.fd_set = st.fd_set \cup {fd}]

\* USBPoller._registerFD
registerFD(st, fd, events) ==
    [fd_set |-> st.fd_set \cup {fd}, mux |-> Put(st.mux, fd, events)]

\* USBPoller._unregisterFD: unregister() of a descriptor the multiplexer
\* does not hold raises KeyError, before __fd_set is touched.
unregisterFD(st, fd) ==
    IF fd \in DOMAIN st.mux
      THEN [fd_set |-> st.fd_set \ {fd}, mux |-> Drop(st.mux, fd)]
      ELSE st

\* The loop of USBPoller.__init__ over getPollFDList().
RECURSIVE registerEach(_, _)
registerEach(st, list) ==
    IF list = <<>> THEN st
    ELSE registerEach(registerFD(st, Head(list)[1], Head(list)[2]), Tail(list))

\* Variant: __init__ that does not walk getPollFDList().
USBPoller_init_unseeded(b) ==
    /\ ~constructed[b]
    /\ constructed' = [constructed EXCEPT ![b] = TRUE]
    /\ notifiers' = b
    /\ fd_set' = [fd_set EXCEPT ![b] = {}]
    /\ plast' = [PollOutcome("USBPoller", b, "ok")
                    EXCEPT !.calls = <<"setPollFDNotifiers">>]
    /\ UNCHANGED <<ctx_fds, mux, transferVars>>

\* USBPoller.__init__
USBPoller_init(b) ==
    /\ ~constructed[b]
    /\ constructed' = [constructed EXCEPT ![b] = TRUE]
    /\ notifiers' = b
    /\ LET list == getPollFDList(ctx_fds)
           st   == registerEach([fd_set |-> {}, mux |-> mux[b]], list)
       IN  /\ fd_set' = [fd_set EXCEPT ![b] = st.fd_set]
           /\ mux' = [mux EXCEPT ![b] = st.mux]
           /\ plast' = [PollOutcome("USBPoller", b, "ok")
                           EXCEPT !.calls =
                               <<"setPollFDNotifiers", "getPollFDList">>
                                 \o [i \in 1..Len(list) |-> "register"]]
    /\ UNCHANGED <<ctx_fds, transferVars>>

\* What the context notifies once libusb_set_pollfd_notifiers was handed
\* null callbacks: nothing.
NullNotifiers == None

\* Variant: __del__ that leaves the context's notifiers as they are.
USBPoller_del_keeps_notifiers(b) ==
    /\ constructed[b]
    /\ constructed' = [constructed EXCEPT ![b] = FALSE]
    /\ plast' = PollOutcome("USBPoller_del", b, "ok")
    /\ UNCHANGED <<ctx_fds, notifiers, fd_set, mux, transferVars>>

\* USBPoller.__del__: setPollFDNotifiers(None, None) on the context,
\* whichever poller the context notifies.  A poller id is free for a new
\* instance afterwards.
USBPoller_del(b) ==
    /\ constructed[b]
    /\ constructed' = [constructed EXCEPT ![b] = FALSE]
    /\ notifiers' = NullNotifiers
    /\ plast' = [PollOutcome("USBPoller_del", b, "ok")
                    EXCEPT !.calls = <<"setPollFDNotifiers">>]
    /\ UNCHANGED <<ctx_fds, fd_set, mux, transferVars>>

\* The native engine starts to need fd monitored for events, and calls the
\* added notifier if one is set.
pollfd_added(fd, events) ==
    /\ fd \notin DOMAIN ctx_fds
    /\ ctx_fds' = Put(ctx_fds, fd, events)
    /\ IF notifiers = None
         THEN /\ plast' = [PollOutcome("pollfd_added", None, "ok")
                              EXCEPT !.fd = fd, !.flags = events]
              /\ UNCHANGED <<fd_set, mux>>
         ELSE LET b  == notifiers
                  st == registerFD(PollerState(b), fd, events)
              IN  /\ fd_set' = [fd_set EXCEPT ![b] = st.fd_set]
                  /\ mux' = [mux EXCEPT ![b] = st.mux]
                  /\ plast' = [PollOutcome("pollfd_added", b, "ok")
                                  EXCEPT !.fd = fd, !.flags = events,
                                         !.calls = <<"register">>]
    /\ UNCHANGED <<notifiers, constructed, transferVars>>

\* The native engine stops needing fd monitored, and calls the removed
\* notifier if one is set.
pollfd_removed(fd) ==
    /\ fd \in DOMAIN ctx_fds
    /\ ctx_fds' = Drop(ctx_fds, fd)
    /\ IF notifiers = None
         THEN /\ plast' = [PollOutcome("pollfd_removed", None, "ok")
                              EXCEPT !.fd = fd]
              /\ UNCHANGED <<fd_set, mux>>
         ELSE LET b  == notifiers
                  st == unregisterFD(PollerState(b), fd)
              IN  /\ fd_set' = [fd_set EXCEPT ![b] = st.fd_set]
                  /\ mux' = [mux EXCEPT ![b] = st.mux]
                  /\ plast' = [PollOutcome("pollfd_removed", b,
                                    IF fd \in DOMAIN mux[b]
                                      THEN "ok" ELSE "KeyError")
                                  EXCEPT !.fd = fd,
                                         !.calls = <<"unregister">>]
    /\ UNCHANGED <<notifiers, constructed, transferVars>>

\* USBPoller.register: handed to the multiplexer as it is.
register(b, fd, events) ==
    /\ constructed[b]
    /\ mux' = [mux EXCEPT ![b] = Put(@, fd, events)]
    /\ plast' = [PollOutcome("register", b, "ok")
                    EXCEPT !.fd = fd, !.flags = events,
                           !.calls = <<"register">>]
    /\ UNCHANGED <<ctx_fds, notifiers, constructed, fd_set, transferVars>>

\* USBPoller.unregister: handed to the multiplexer as it is.
unregister(b, fd) ==
    /\ constructed[b]
    /\ IF fd \in DOMAIN mux[b]
         THEN /\ mux' = [mux EXCEPT ![b] = Drop(@, fd)]
              /\ plast' = [PollOutcome("unregister", b, "ok")
                              EXCEPT !.fd = fd, !.calls = <<"unregister">>]
         ELSE /\ plast' = [PollOutcome("unregister", b, "KeyError")
                              EXCEPT !.fd = fd, !.calls = <<"unregister">>]
              /\ UNCHANGED mux
    /\ UNCHANGED <<ctx_fds, notifiers, constructed, fd_set, transferVars>>

\* USBPoller.poll: the native engine answers getNextTimeout with nt, the
\* multiplexer returns event_list, and libusb_handle_events_timeout, when
\* called, returns h.
poll(b, timeout, nt, event_list, h) ==
    /\ constructed[b]
    /\ IF getNextTimeout_raises(nt[1])
         THEN plast' = [PollOutcome("poll", b, "USBError")
                           EXCEPT !.timeout = timeout,
                                  !.calls = <<"getNextTimeout">>]
         ELSE LET next_usb_timeout == getNextTimeout(nt[1], nt[2])
                  result  == poll_result(event_list, fd_set[b])
                  handles == poll_handles(event_list, result)
                  raised  == handles /\ h # 0
              IN  plast' =
                    [PollOutcome("poll", b, IF raised THEN "USBError" ELSE "ok")
                        EXCEPT !.timeout = timeout,
                               !.next = next_usb_timeout,
                               !.passed = usb_timeout(timeout, next_usb_timeout),
                               !.events = event_list,
                               !.result = IF raised THEN <<>> ELSE result,
                               !.calls = <<"getNextTimeout", "poll">> \o
                                   (IF handles THEN <<"handleEventsTimeout">>
                                               ELSE <<>>)]
    /\ UNCHANGED <<ctx_fds, notifiers, constructed, fd_set, mux, transferVars>>

----
\* A poll() of USBPoller with the callbacks that run inside it: control is
\* in the caller's code, in handleEventsTimeout (handling, pc idle) or in a
\* callback frame that handleEventsTimeout entered (handling, pc not idle).

\* The caller's thread is in the caller's code or in a callback of the
\* caller.
UserRuns == ~handling \/ pc # "idle"

\* USBPoller.poll up to its return or, if it handles events, up to the
\* entry of handleEventsTimeout.
poll_begin(b, timeout, nt, event_list) ==
    /\ constructed[b]
    /\ ~handling
    /\ pc = "idle"
    /\ IF getNextTimeout_raises(nt[1])
         THEN /\ plast' = [PollOutcome("poll", b, "USBError")
                              EXCEPT !.timeout = timeout,
                                     !.calls = <<"getNextTimeout">>]
              /\ UNCHANGED handling
         ELSE LET next_usb_timeout == getNextTimeout(nt[1], nt[2])
                  result  == poll_result(event_list, fd_set[b])
                  handles == poll_handles(event_list, result)
              IN  /\ plast' =
                       [PollOutcome("poll", b, IF handles THEN "running" ELSE "ok")
                           EXCEPT !.timeout = timeout,
                                  !.next = next_usb_timeout,
                                  !.passed = usb_timeout(timeout, next_usb_timeout),
                                  !.events = event_list,
                                  !.result = IF handles THEN <<>> ELSE result,
                                  !.calls = <<"getNextTimeout", "poll">> \o
                                      (IF handles THEN <<"handleEventsTimeout">>
                                                  ELSE <<>>)]
                  /\ handling' = handles
    /\ UNCHANGED <<ctx_fds, notifiers, constructed, fd_set, mux, transferVars,
                   transfer_p>>

\* handleEventsTimeout returns to poll(), libusb_handle_events_timeout
\* having returned h, and poll() returns or lets the USBError out.
poll_return(h) ==
    /\ handling
    /\ pc = "idle"
    /\ handling' = FALSE
    /\ plast' = [plast EXCEPT
                    !.err = IF h # 0 THEN "USBError" ELSE "ok",
                    !.result = IF h # 0 THEN <<>>
                               ELSE poll_result(plast.events,
                                                fd_set[plast.bridge])]
    /\ UNCHANGED <<ctx_fds, notifiers, constructed, fd_set, mux, transferVars,
                   transfer_p>>

\* Variant: the dispatcher catches what its callback raises.
callbackRaise_swallowed ==
    /\ pc # "idle"
    /\ pc' = "idle"
    /\ last' = Outcome("callbackRaise", "ok", 0, "none")
    /\ UNCHANGED <<transferFields, nativeState, helperFields>>

\* The user callback raises: neither __callbackDispatcher nor
\* __callbackWrapper has a try statement, so the exception leaves both and
\* the dispatcher's self.submit() is not reached.
callbackRaise ==
    /\ pc # "idle"
    /\ pc' = "idle"
    /\ last' = Outcome("callbackRaise", "UserError", 0, "none")
    /\ UNCHANGED <<transferFields, nativeState, helperFields>>

\* What an exception that leaves the trampoline does to the poll() around
\* it: it ends handleEventsTimeout and poll(), which let it out.
Propagate ==
    /\ IF last'.err = "ok"
         THEN UNCHANGED <<handling, plast>>
         ELSE /\ handling' = FALSE
              /\ plast' = [plast EXCEPT !.err = last'.err]
    /\ UNCHANGED <<ctx_fds, notifiers, constructed, fd_set, mux, transfer_p>>

\* handleEventsTimeout delivers a completion of the transfer.
Deliver ==
    /\ handling
    /\ \E s \in DeliveredStatuses : callbackWrapper(s)
    /\ Propagate

\* The native layer completes an operation it still holds on a transfer
\* that __del__ has freed: it reads the freed libusb_transfer and calls the
\* callback pointer stored there, whose ctypes object has gone with the
\* instance. What follows is undefined: the process crashes, or the call
\* goes unnoticed.
FreedOutcomes == {"crash", "unnoticed"}

callbackWrapper_freed(outcome) ==
    /\ transfer_p = "freed"
    /\ pc = "idle"
    /\ inflight
    /\ inflight' = FALSE
    /\ cancelling' = FALSE
    /\ last' = Outcome("callbackWrapper_freed", outcome, 0, "none")
    /\ UNCHANGED <<initialized, submitted, callback, xfer_type, buffer,
                   xfer_status, helperFields, pc>>

----
Next ==
    \/ close /\ UNCHANGED <<pollVars, lifeVars>>
    \/ \E cb \in CallbackInputs : setCallback(cb) /\ UNCHANGED <<pollVars, lifeVars>>
    \/ \E ep \in OneEndpoint, n \in Lengths, s \in BOOLEAN, cb \in CallbackInputs :
            setControl(ep, n, s, cb) /\ UNCHANGED <<pollVars, lifeVars>>
    \/ \E ep \in OneEndpoint, n \in Lengths, s \in BOOLEAN, cb \in CallbackInputs :
            setBulk(ep, n, s, cb) /\ UNCHANGED <<pollVars, lifeVars>>
    \/ \E ep \in OneEndpoint, n \in Lengths, s \in BOOLEAN, cb \in CallbackInputs :
            setInterrupt(ep, n, s, cb) /\ UNCHANGED <<pollVars, lifeVars>>
    \/ setIsochronous /\ UNCHANGED <<pollVars, lifeVars>>
    \/ \E n \in Lengths, s \in BOOLEAN : setBuffer(n, s) /\ UNCHANGED <<pollVars, lifeVars>>
    \/ \E r \in NativeSubmitResults : submit(r) /\ UNCHANGED <<pollVars, lifeVars>>
    \/ \E r \in NativeCancelResults : cancel(r) /\ UNCHANGED <<pollVars, lifeVars>>
    \/ Helper_init /\ UNCHANGED <<pollVars, lifeVars>>
    \/ \E r \in NativeSubmitResults : Helper_submit(r) /\ UNCHANGED <<pollVars, lifeVars>>
    \/ \E r \in NativeCancelResults : Helper_cancel(r) /\ UNCHANGED <<pollVars, lifeVars>>
    \/ \E e \in RegEvents, cb \in HelperCallbacks : setEventCallback(e, cb)
            /\ UNCHANGED <<pollVars, lifeVars>>
    \/ \E cb \in HelperCallbacks : setDefaultCallback(cb) /\ UNCHANGED <<pollVars, lifeVars>>
    \/ \E r \in NativeCancelResults : Helper_del(r) /\ UNCHANGED <<pollVars, lifeVars>>
    \/ \E s \in DeliveredStatuses : callbackWrapper(s) /\ UNCHANGED <<pollVars, lifeVars>>
    \/ \E ret \in BOOLEAN, r \in NativeSubmitResults : callbackReturn(ret, r)
            /\ UNCHANGED <<pollVars, lifeVars>>

Spec == Init /\ [][Next]_vars

\* Transfers set up for asynchronous use next to synchronous transfers on
\* the same device handle.
NextSync ==
    \/ \E ep \in Endpoints, n \in Lengths, s \in BOOLEAN, cb \in CallbackInputs :
            setControl(ep, n, s, cb) /\ UNCHANGED <<pollVars, lifeVars>>
    \/ \E ep \in Endpoints, n \in Lengths, s \in BOOLEAN, cb \in CallbackInputs :
            setBulk(ep, n, s, cb) /\ UNCHANGED <<pollVars, lifeVars>>
    \/ \E ep \in Endpoints, n \in Lengths, s \in BOOLEAN, cb \in CallbackInputs :
            setInterrupt(ep, n, s, cb) /\ UNCHANGED <<pollVars, lifeVars>>
    \/ \E ep \in Endpoints, r \in NativeSyncResults : controlWrite(ep, r)
            /\ UNCHANGED <<pollVars, lifeVars>>
    \/ \E ep \in Endpoints, r \in NativeSyncResults : controlRead(ep, r)
            /\ UNCHANGED <<pollVars, lifeVars>>
    \/ \E ep \in Endpoints, r \in NativeSyncResults : bulkWrite(ep, r)
            /\ UNCHANGED <<pollVars, lifeVars>>
    \/ \E ep \in Endpoints, r \in NativeSyncResults : bulkRead(ep, r)
            /\ UNCHANGED <<pollVars, lifeVars>>
    \/ \E ep \in Endpoints, r \in NativeSyncResults : interruptWrite(ep, r)
            /\ UNCHANGED <<pollVars, lifeVars>>
    \/ \E ep \in Endpoints, r \in NativeSyncResults : interruptRead(ep, r)
            /\ UNCHANGED <<pollVars, lifeVars>>

SpecSync == Init /\ [][NextSync]_vars

\* One transfer used without a helper, from allocation to destruction.
NextDel ==
    \/ transfer_p = "allocated" /\ close /\ UNCHANGED <<pollVars, lifeVars>>
    \/ transfer_p = "allocated"
          /\ \E ep \in OneEndpoint, n \in Lengths, s \in BOOLEAN,
                cb \in CallbackInputs : setBulk(ep, n, s, cb)
          /\ UNCHANGED <<pollVars, lifeVars>>
    \/ transfer_p = "allocated"
          /\ \E r \in NativeSubmitResults : submit(r)
          /\ UNCHANGED <<pollVars, lifeVars>>
    \/ transfer_p = "allocated"
          /\ \E r \in NativeCancelResults : cancel(r)
          /\ UNCHANGED <<pollVars, lifeVars>>
    \/ transfer_p = "allocated"
          /\ \E s \in DeliveredStatuses : callbackWrapper(s)
          /\ UNCHANGED <<pollVars, lifeVars>>
    \/ transfer_p = "allocated"
          /\ \E ret \in BOOLEAN, r \in NativeSubmitResults : callbackReturn(ret, r)
          /\ UNCHANGED <<pollVars, lifeVars>>
    \/ \E r \in NativeCancelResults : Transfer_del(r) /\ UNCHANGED pollVars
    \/ \E outcome \in FreedOutcomes : callbackWrapper_freed(outcome)
          /\ UNCHANGED <<pollVars, lifeVars>>

SpecDel == Init /\ [][NextDel]_vars

\* One USBPoller on a context whose native engine adds and removes
\* descriptors, with a caller that registers descriptors of its own.
PollBridges == {"b1"}

NextPoll ==
    \/ \E b \in PollBridges : USBPoller_init(b) /\ UNCHANGED lifeVars
    \/ \E fd \in USBFDs, ev \in Events : pollfd_added(fd, ev)
            /\ UNCHANGED lifeVars
    \/ \E fd \in USBFDs : pollfd_removed(fd) /\ UNCHANGED lifeVars
    \/ \E b \in PollBridges, fd \in ForeignFDs, ev \in Events :
            register(b, fd, ev) /\ UNCHANGED lifeVars
    \/ \E b \in PollBridges, fd \in ForeignFDs : unregister(b, fd)
            /\ UNCHANGED lifeVars
    \/ \E b \in PollBridges, timeout \in Timeouts, nt \in NativeTimeouts,
          h \in NativeHandleResults :
            \E event_list \in EventLists(mux[b]) :
                poll(b, timeout, nt, event_list, h) /\ UNCHANGED lifeVars

SpecPoll == Init /\ [][NextPoll]_vars

\* The same, with a caller that hands any descriptor to register and
\* unregister, those of the native engine included.
NextPollAny ==
    \/ \E b \in PollBridges : USBPoller_init(b) /\ UNCHANGED lifeVars
    \/ \E fd \in USBFDs, ev \in Events : pollfd_added(fd, ev)
            /\ UNCHANGED lifeVars
    \/ \E fd \in USBFDs : pollfd_removed(fd) /\ UNCHANGED lifeVars
    \/ \E b \in PollBridges, fd \in USBFDs \cup ForeignFDs, ev \in Events :
            register(b, fd, ev) /\ UNCHANGED lifeVars
    \/ \E b \in PollBridges, fd \in USBFDs \cup ForeignFDs : unregister(b, fd)
            /\ UNCHANGED lifeVars
    \/ \E b \in PollBridges, timeout \in {Absent}, nt \in {<<0, 0>>},
          h \in NativeHandleResults :
            \E event_list \in EventLists(mux[b]) :
                poll(b, timeout, nt, event_list, h) /\ UNCHANGED lifeVars

SpecPollAny == Init /\ [][NextPollAny]_vars

\* Pollers constructed and destroyed on one context, whose native engine
\* adds and removes descriptors.
NextBridges ==
    \/ \E b \in Bridges : USBPoller_init(b) /\ UNCHANGED lifeVars
    \/ \E b \in Bridges : USBPoller_del(b) /\ UNCHANGED lifeVars
    \/ \E fd \in USBFDs, ev \in Events : pollfd_added(fd, ev)
            /\ UNCHANGED lifeVars
    \/ \E fd \in USBFDs : pollfd_removed(fd) /\ UNCHANGED lifeVars

SpecBridges == Init /\ [][NextBridges]_vars

\* A transfer with a helper whose completions are delivered inside the
\* poll() of a USBPoller, to callbacks that return or raise.
NextEvents ==
    \/ \E b \in PollBridges : USBPoller_init(b) /\ UNCHANGED lifeVars
    \/ UserRuns /\ Helper_init /\ UNCHANGED <<pollVars, lifeVars>>
    \/ UserRuns /\ \E cb \in HelperCallbacks : setDefaultCallback(cb)
          /\ UNCHANGED <<pollVars, lifeVars>>
    \/ UserRuns
          /\ \E ep \in OneEndpoint, cb \in CallbackInputs :
                setBulk(ep, 1, FALSE, cb)
          /\ UNCHANGED <<pollVars, lifeVars>>
    \/ UserRuns /\ \E r \in NativeSubmitResults : submit(r)
          /\ UNCHANGED <<pollVars, lifeVars>>
    \/ UserRuns /\ \E r \in NativeCancelResults : cancel(r)
          /\ UNCHANGED <<pollVars, lifeVars>>
    \/ \E b \in PollBridges, nt \in NativeTimeouts :
            \E event_list \in EventLists(mux[b]) :
                poll_begin(b, Absent, nt, event_list)
    \/ Deliver
    \/ \E ret \in BOOLEAN, r \in NativeSubmitResults :
            callbackReturn(ret, r) /\ Propagate
    \/ callbackRaise /\ Propagate
    \/ \E h \in NativeHandleResults : poll_return(h)

SpecEvents == Init /\ [][NextEvents]_vars

\* A transfer that is submitted, cancelled and closed by a caller who keeps
\* calling the poll() of a USBPoller.
PollHandles ==
    \E b \in PollBridges : poll_begin(b, Absent, <<0, 0>>, <<>>)

CallbackReturns ==
    \E ret \in BOOLEAN, r \in NativeSubmitResults :
        callbackReturn(ret, r) /\ Propagate

PollReturns == \E h \in NativeHandleResults : poll_return(h)

NextCancel ==
    \/ \E b \in PollBridges : USBPoller_init(b) /\ UNCHANGED lifeVars
    \/ UserRuns /\ \E ep \in OneEndpoint : setBulk(ep, 1, FALSE, "userCb")
          /\ UNCHANGED <<pollVars, lifeVars>>
    \/ UserRuns /\ \E r \in NativeSubmitResults : submit(r)
          /\ UNCHANGED <<pollVars, lifeVars>>
    \/ UserRuns /\ \E r \in NativeCancelResults : cancel(r)
          /\ UNCHANGED <<pollVars, lifeVars>>
    \/ UserRuns /\ close /\ UNCHANGED <<pollVars, lifeVars>>
    \/ PollHandles
    \/ Deliver
    \/ CallbackReturns
    \/ PollReturns

\* The caller keeps calling poll(); the native engine delivers a completion
\* it holds in one of the poll() calls that handle events; callbacks and
\* handleEventsTimeout return.
SpecCancel ==
    /\ Init
    /\ [][NextCancel]_vars
    /\ WF_vars(PollHandles)
    /\ SF_vars(Deliver)
    /\ WF_vars(CallbackReturns)
    /\ WF_vars(PollReturns)


----
\* Properties

Mutators == {"setControl", "setBulk", "setInterrupt", "setBuffer",
             "setCallback", "close"}

\* C1: from a state where the transfer is submitted, a step of setControl,
\* setBulk, setInterrupt, setBuffer, setCallback or close raises ValueError
\* and leaves __submitted, __initialized, __callback and the buffer as they
\* were; a step of cancel is not refused with ValueError, and a step of
\* submit is not accepted.
C1_SubmittedRejectsMutators ==
    [][submitted =>
        /\ last'.op \in Mutators =>
              /\ last'.err = "ValueError"
              /\ UNCHANGED <<submitted, initialized, callback, buffer, xfer_type>>
        /\ last'.op = "cancel" => last'.err # "ValueError"
        /\ last'.op = "submit" => last'.err # "ok"]_vars

\* C1 witness: close() was refused on a submitted transfer.
C1_Witness ==
    /\ submitted
    /\ last.op = "close"
    /\ last.err = "ValueError"
    /\ callback # None

\* C2: submit() on a transfer that is not initialized (no set* call has
\* succeeded since creation or since the last close()) raises ValueError,
\* does not reach libusb_submit_transfer, and the transfer is not submitted
\* afterwards.
C2_SubmitBeforeConfigure ==
    [][(~initialized /\ last'.op \in {"submit", "Helper_submit"}) =>
        /\ last'.err = "ValueError"
        /\ last'.native = "none"
        /\ ~submitted'
        /\ UNCHANGED <<inflight, initialized>>]_vars

\* C2 witness: submit() was refused on a transfer that has a callback but
\* is not initialized.
C2_Witness ==
    /\ ~initialized
    /\ callback # None
    /\ last.op = "submit"
    /\ last.err = "ValueError"

\* C3: a submitted transfer is initialized and has a callback, in every
\* state; submit() without a callback raises ValueError and does not reach
\* the native layer; no step from a submitted state changes __callback or
\* __initialized.
C3_SubmittedHasCallback ==
    /\ [](submitted => (initialized /\ callback # None))
    /\ [][/\ (callback = None /\ last'.op \in {"submit", "Helper_submit"}) =>
                (last'.err = "ValueError" /\ last'.native = "none"
                   /\ UNCHANGED <<submitted, inflight>>)
          /\ submitted => UNCHANGED <<initialized, callback>>]_vars

\* C3 witness: submit() was refused on an initialized transfer whose
\* callback is None.
C3_Witness ==
    /\ initialized
    /\ callback = None
    /\ last.op = "submit"
    /\ last.err = "ValueError"

\* C4: submit() on an initialized, not submitted transfer with a callback
\* reaches the native layer; when that returns a non-zero code, submit()
\* raises USBError with that very code and the transfer stays initialized
\* and not submitted; when it returns 0, the transfer is submitted.
C4_SubmitNativeOutcome ==
    [][(initialized /\ callback # None /\ ~submitted /\ last'.op = "submit") =>
        /\ last'.native = "submit"
        /\ IF last'.nret # 0
             THEN /\ last'.err = "USBError"
                  /\ last'.code = last'.nret
                  /\ ~submitted'
                  /\ initialized'
                  /\ callback' = callback
             ELSE /\ last'.err = "ok"
                  /\ submitted']_vars

\* C4 witness: the native layer refused a submission of an idle transfer
\* (nothing was in flight), which is still initialized and not submitted.
C4_Witness ==
    /\ last.op = "submit"
    /\ last.err = "USBError"
    /\ last.code = LIBUSB_ERROR_NO_DEVICE
    /\ initialized
    /\ callback # None
    /\ ~submitted
    /\ ~inflight

\* C5: submit() on a submitted transfer raises ValueError and does not
\* reach libusb_submit_transfer.
C5_SubmitWhileSubmitted ==
    [][(submitted /\ last'.op = "submit") =>
        (last'.err = "ValueError" /\ last'.native = "none")]_vars

\* C6 as stated: when libusb_cancel_transfer reports "not found", cancel()
\* raises nothing and the transfer is not submitted afterwards.
C6_CancelNotFoundSilent ==
    [][(last'.op = "cancel" /\ last'.nret = LIBUSB_ERROR_NOT_FOUND) =>
        (last'.err = "ok" /\ ~submitted')]_vars

\* C6 as amended: when libusb_cancel_transfer reports "not found", cancel()
\* raises USBError carrying that code and leaves __submitted as it was.
C6_CancelNotFoundRaises ==
    [][(last'.op = "cancel" /\ last'.nret = LIBUSB_ERROR_NOT_FOUND) =>
        /\ last'.err = "USBError"
        /\ last'.code = LIBUSB_ERROR_NOT_FOUND
        /\ UNCHANGED <<submitted, inflight, cancelling>>]_vars

\* C6 witness: cancel() of a submitted transfer raised "not found" and the
\* transfer is still submitted.
C6_Witness ==
    /\ last.op = "cancel"
    /\ last.err = "USBError"
    /\ last.code = LIBUSB_ERROR_NOT_FOUND
    /\ submitted

\* C7: a step of the trampoline leaves the transfer not submitted, so it is
\* not submitted when the user callback starts; the first call the callback
\* makes is accepted as on an idle transfer: setControl, setBulk,
\* setInterrupt, setBuffer and setCallback succeed, and submit() on an
\* initialized transfer with a callback reaches the native layer and makes
\* the transfer submitted when the native layer accepts.
C7_NotSubmittedInsideCallback ==
    [][/\ last'.op = "callbackWrapper" => ~submitted'
       /\ (pc # "idle" /\ last.op = "callbackWrapper") =>
            /\ ~submitted
            /\ last'.op \in (Mutators \ {"close"}) => last'.err = "ok"
            /\ (last'.op = "submit" /\ initialized /\ callback # None) =>
                  /\ last'.native = "submit"
                  /\ last'.nret = 0 => (last'.err = "ok" /\ submitted')]_vars

\* C7 witness: the callback of a completion submitted the transfer again,
\* as its first call, and the callback is still running.
C7_Witness ==
    /\ pc = "in_user_callback"
    /\ last.op = "submit"
    /\ last.err = "ok"
    /\ submitted

\* C8: when a callback selected by the dispatcher returns, the dispatcher
\* makes exactly one submit() call in that step if it returned true, and if
\* it returned false none: the native layer is not reached and __submitted
\* is left as it was.
C8_ResubmitOncePerCompletion ==
    [][(pc = "in_dispatch_callback" /\ pc' = "idle") =>
        /\ last'.op = "callbackReturn"
        /\ IF last'.ret = "true"
             THEN last'.resub = 1
             ELSE /\ last'.resub = 0
                  /\ last'.native = "none"
                  /\ UNCHANGED <<submitted, inflight>>]_vars

\* C8 witness: a dispatch callback returned true and the one resubmission
\* was accepted.
C8_Witness ==
    /\ last.op = "callbackReturn"
    /\ last.ret = "true"
    /\ last.resub = 1
    /\ last.err = "ok"
    /\ submitted
    /\ pc = "idle"

\* C9: a completion delivered to the dispatcher is handed to one callback:
\* the one registered for the transfer's status if there is one, otherwise
\* the current default callback.
C9_DispatchByStatus ==
    [][(last'.op = "callbackWrapper" /\ callback = "dispatcher") =>
        last'.invoked =
            IF xfer_status' \in DOMAIN event_callback_dict
              THEN event_callback_dict[xfer_status']
              ELSE errorCallback]_vars

\* C9 witness: only a stall callback is registered, a no-device completion
\* arrived and went to the default callback, which is another callback.
C9_Witness ==
    /\ last.op = "callbackWrapper"
    /\ xfer_status = LIBUSB_TRANSFER_NO_DEVICE
    /\ DOMAIN event_callback_dict = {LIBUSB_TRANSFER_STALL}
    /\ errorCallback \in HelperCallbacks
    /\ event_callback_dict[LIBUSB_TRANSFER_STALL] # errorCallback
    /\ last.invoked = errorCallback
    /\ pc = "in_dispatch_callback"

\* C10: with the initial fallback in place and no callback registered for
\* the arriving status, the dispatch raises nothing, makes no submit() and
\* leaves the transfer not submitted.
C10_InitialFallbackSilent ==
    [][(/\ last'.op = "callbackWrapper"
        /\ callback = "dispatcher"
        /\ errorCallback = DEFAULT_ASYNC_TRANSFER_ERROR_CALLBACK
        /\ xfer_status' \notin DOMAIN event_callback_dict) =>
        /\ last'.err = "ok"
        /\ last'.resub = 0
        /\ last'.native = "none"
        /\ ~submitted']_vars

\* C11: setEventCallback with an event outside EVENT_CALLBACK_SET raises
\* ValueError and leaves the table as it was; with an event of the set it
\* is accepted; every key of the table is in EVENT_CALLBACK_SET, always.
C11_OnlyEnumeratedEvents ==
    /\ [](DOMAIN event_callback_dict \subseteq EVENT_CALLBACK_SET)
    /\ [][last'.op = "setEventCallback" =>
            IF last'.arg \notin EVENT_CALLBACK_SET
              THEN /\ last'.err = "ValueError"
                   /\ UNCHANGED <<event_callback_dict, errorCallback>>
              ELSE /\ last'.err = "ok"
                   /\ last'.arg \in DOMAIN event_callback_dict']_vars

\* C11 witness: an unknown event was refused while the table holds an entry.
C11_Witness ==
    /\ last.op = "setEventCallback"
    /\ last.arg = "BOGUS"
    /\ last.err = "ValueError"
    /\ DOMAIN event_callback_dict = {LIBUSB_TRANSFER_STALL}

\* event_list without the entries whose descriptor is in S, in order.
RECURSIVE Without(_, _)
Without(list, S) ==
    IF list = <<>> THEN <<>>
    ELSE IF Head(list)[1] \in S
           THEN Without(Tail(list), S)
           ELSE <<Head(list)>> \o Without(Tail(list), S)

Count(list, x) == Cardinality({i \in DOMAIN list : list[i] = x})

\* plast' is a poll() in which the multiplexer's poll returned.
Polled == plast'.op = "poll" /\ Count(plast'.calls, "poll") = 1

\* C12: a poll() that returns, returns the multiplexer's list without the
\* entries whose descriptor is in __fd_set, the others in their order: no
\* returned entry has a descriptor of __fd_set, and every entry with a
\* descriptor outside __fd_set is returned.
C12_PollReturnsForeignOnly ==
    [][(plast'.op = "poll" /\ plast'.err = "ok") =>
        LET S == fd_set[plast'.bridge]
        IN  /\ plast'.result = Without(plast'.events, S)
            /\ \A i \in DOMAIN plast'.result : plast'.result[i][1] \notin S
            /\ \A i \in DOMAIN plast'.events :
                  plast'.events[i][1] \notin S =>
                      \E j \in DOMAIN plast'.result :
                          plast'.result[j] = plast'.events[i]]_vars

\* C12 witness: the multiplexer reported a descriptor of __fd_set and a
\* foreign one; poll() returned the foreign one only.
C12_Witness ==
    /\ plast.op = "poll"
    /\ plast.err = "ok"
    /\ 3 \in fd_set["b1"]
    /\ plast.events = << <<3, "POLLIN">>, <<5, "POLLOUT">> >>
    /\ plast.result = << <<5, "POLLOUT">> >>

\* C13: a poll() in which the multiplexer's poll returned calls
\* handleEventsTimeout once, after it, if the returned list is empty or
\* has an entry whose descriptor is in __fd_set, and not at all otherwise;
\* poll(None) with an empty __fd_set and a pending native timeout D hands D
\* to the multiplexer.
C13_HandlesOnceIffUsbOrEmpty ==
    [][Polled =>
        LET S      == fd_set[plast'.bridge]
            evs    == plast'.events
            needed == evs = <<>> \/ \E i \in DOMAIN evs : evs[i][1] \in S
        IN  /\ Count(plast'.calls, "handleEventsTimeout") =
                  (IF needed THEN 1 ELSE 0)
            /\ \A i, j \in DOMAIN plast'.calls :
                  (plast'.calls[i] = "poll"
                     /\ plast'.calls[j] = "handleEventsTimeout") => i < j
            /\ (plast'.timeout = Absent /\ S = {} /\ plast'.next # Absent) =>
                  plast'.passed = plast'.next]_vars

\* C13 witness: poll(None) with an empty __fd_set and a pending native
\* timeout of 2; the multiplexer, asked with 2, reported a foreign
\* descriptor only and handleEventsTimeout was not called.
C13_Witness ==
    /\ plast.op = "poll"
    /\ plast.err = "ok"
    /\ fd_set["b1"] = {}
    /\ plast.timeout = Absent
    /\ plast.next = Present(2)
    /\ plast.passed = Present(2)
    /\ plast.events = << <<5, "POLLIN">> >>
    /\ plast.calls = <<"getNextTimeout", "poll">>

\* The smaller of two optional durations, an absent one being no bound.
MinOptional(t, d) ==
    IF t = Absent THEN d
    ELSE IF d = Absent THEN t
    ELSE IF d[1] < t[1] THEN d ELSE t

\* C14: the timeout poll() hands to the multiplexer is absent if the
\* caller's timeout and the pending native timeout are both absent, the
\* present one if one is, and the smaller if both are, 0 included.
C14_PassedIsMinimum ==
    [][Polled => plast'.passed = MinOptional(plast'.timeout, plast'.next)]_vars

DirBit(x)  == (x \div 128) % 2
LowBits(x) == x % 128
Configure  == {"setControl", "setBulk", "setInterrupt"}
SyncWrites == {"controlWrite", "bulkWrite", "interruptWrite"}
SyncReads  == {"controlRead", "bulkRead", "interruptRead"}

\* C15 as stated: the endpoint or request type a transfer set-up hands to
\* the native layer has the direction bit of the read/write intent (a
\* string buffer: write, OUT; a length: read, IN) and the caller's other
\* bits.
C15_SetupForcesDirection ==
    [][(last'.op \in Configure /\ last'.err = "ok") =>
        /\ DirBit(last'.endpoint) = (IF last'.arg = "write" THEN 0 ELSE 1)
        /\ LowBits(last'.endpoint) = LowBits(last'.given)]_vars

\* C15 as amended: the synchronous controlWrite, bulkWrite and
\* interruptWrite hand over the caller's value with the direction bit
\* cleared (OUT), controlRead, bulkRead and interruptRead with it set (IN),
\* the other bits unchanged; setControl, setBulk and setInterrupt hand over
\* the caller's value unchanged.
C15_SyncForcesDirection ==
    [][/\ last'.op \in SyncWrites =>
            (DirBit(last'.endpoint) = 0
               /\ LowBits(last'.endpoint) = LowBits(last'.given))
       /\ last'.op \in SyncReads =>
            (DirBit(last'.endpoint) = 1
               /\ LowBits(last'.endpoint) = LowBits(last'.given))
       /\ (last'.op \in Configure /\ last'.err = "ok") =>
            last'.endpoint = last'.given]_vars

\* C15 witness: bulkWrite was given an IN endpoint and handed the OUT
\* endpoint of the same number to the native layer.
C15_Witness ==
    /\ last.op = "bulkWrite"
    /\ last.given = 129
    /\ last.endpoint = 1

\* C16 as stated: setIsochronous raises NotImplementedError in every state
\* and changes nothing.
C16_IsochronousNotImplemented ==
    [][last'.op = "setIsochronous" =>
        /\ last'.err = "NotImplementedError"
        /\ UNCHANGED <<transferFields, nativeState, helperFields, pc>>]_vars

\* C16 as amended: setIsochronous fails in every state and changes
\* nothing; it raises NotImplementedError on a transfer that is not
\* submitted and ValueError on a submitted one.
C16_IsochronousAlwaysFails ==
    [][last'.op = "setIsochronous" =>
        /\ last'.err = IF submitted THEN "ValueError" ELSE "NotImplementedError"
        /\ UNCHANGED <<transferFields, nativeState, helperFields, pc>>]_vars

\* C16 witness: setIsochronous raised ValueError on a submitted transfer.
C16_Witness ==
    /\ last.op = "setIsochronous"
    /\ last.err = "ValueError"
    /\ submitted

\* C17: close() on a transfer that is not submitted clears __callback and
\* __initialized, reaches no native function and leaves the native
\* transfer as it was; while not initialized, submit() raises ValueError;
\* a set-up with a callback makes the transfer initialized again, and a
\* submit() of it that the native layer accepts makes it submitted.
C17_CloseThenReuse ==
    [][/\ (~submitted /\ last'.op = "close") =>
            /\ last'.err = "ok"
            /\ ~initialized' /\ callback' = None
            /\ last'.native = "none"
            /\ UNCHANGED <<submitted, xfer_type, buffer, nativeState>>
       /\ (~initialized /\ last'.op = "submit") =>
            (last'.err = "ValueError" /\ ~submitted')
       /\ (~submitted /\ last'.op \in Configure) =>
            (last'.err = "ok" /\ initialized')
       /\ (last'.op = "submit" /\ initialized /\ callback # None
             /\ last'.native = "submit" /\ last'.nret = 0) =>
            submitted']_vars

\* C17 witness: a transfer set up for bulk use was closed: no callback, not
\* initialized, the native transfer still set up as it was.
C17_Witness ==
    /\ last.op = "close"
    /\ last.err = "ok"
    /\ ~initialized
    /\ callback = None
    /\ xfer_type = "bulk"
    /\ buffer > 0

\* C18: while the native layer holds an accepted operation whose
\* completion is not delivered yet, the transfer is submitted (so that the
\* set-up methods, setBuffer, setCallback and close are refused).
C18_InFlightIsSubmitted ==
    inflight => submitted

\* C19: when USBPoller.__init__ has run on a context, the context notifies
\* that poller, its __fd_set is the set of descriptors of the context's
\* pollfd list, and the multiplexer holds each of them with its flags.
C19_ConstructionSeeds ==
    [][plast'.op = "USBPoller" =>
        LET b == plast'.bridge
        IN  /\ notifiers' = b
            /\ fd_set'[b] = DOMAIN ctx_fds
            /\ \A fd \in DOMAIN ctx_fds :
                  fd \in DOMAIN mux'[b] /\ mux'[b][fd] = ctx_fds[fd]
            /\ Count(plast'.calls, "register") = Cardinality(DOMAIN ctx_fds)]_vars

\* C19 witness: a poller was constructed on a context that had two
\* descriptors with different flags.
C19_Witness ==
    /\ plast.op = "USBPoller"
    /\ notifiers = "b1"
    /\ fd_set["b1"] = {3, 4}
    /\ DOMAIN mux["b1"] = {3, 4}
    /\ mux["b1"][3] = "POLLIN"
    /\ mux["b1"][4] = "POLLOUT"

\* C20: while the context notifies a constructed poller, that poller's
\* __fd_set is the native engine's pollfd set; an added notification makes
\* one register call, with the descriptor and its flags, and a removed
\* notification one unregister call, of the descriptor.
C20_FdSetFollowsEngine ==
    /\ [](\A b \in Bridges :
            (constructed[b] /\ notifiers = b) => fd_set[b] = DOMAIN ctx_fds)
    /\ [][/\ (plast'.op = "pollfd_added" /\ plast'.bridge # None) =>
                /\ plast'.calls = <<"register">>
                /\ plast'.fd \in DOMAIN mux'[plast'.bridge]
                /\ mux'[plast'.bridge][plast'.fd] = plast'.flags
                /\ ctx_fds'[plast'.fd] = plast'.flags
          /\ (plast'.op = "pollfd_removed" /\ plast'.bridge # None) =>
                /\ plast'.calls = <<"unregister">>
                /\ plast'.err = "ok"
                /\ plast'.fd \notin DOMAIN mux'[plast'.bridge]]_vars

\* C20 witness: after a poll(), the engine dropped descriptor 3 of the two
\* it had; the poller unregistered it and keeps 4 only.
C20_Witness ==
    /\ plast.op = "pollfd_removed"
    /\ plast.bridge = "b1"
    /\ plast.fd = 3
    /\ plast.calls = <<"unregister">>
    /\ fd_set["b1"] = {4}
    /\ DOMAIN ctx_fds = {4}
    /\ DOMAIN mux["b1"] = {4, 5}

\* C23: USBTransferHelper.__del__ calls libusb_cancel_transfer on the
\* wrapped transfer; it ends without an exception when that returns 0 or
\* LIBUSB_ERROR_NOT_FOUND and raises USBError with the code otherwise.
C23_HelperDelCancels ==
    [][last'.op = "Helper_del" =>
        /\ last'.native = "cancel"
        /\ last'.nret \in {0, LIBUSB_ERROR_NOT_FOUND} => last'.err = "ok"
        /\ last'.nret \notin {0, LIBUSB_ERROR_NOT_FOUND} =>
              (last'.err = "USBError" /\ last'.code = last'.nret)]_vars

\* C23 witness: a helper was collected while nothing was in flight; the
\* native "not found" surfaced no error.
C23_Witness ==
    /\ last.op = "Helper_del"
    /\ last.nret = LIBUSB_ERROR_NOT_FOUND
    /\ last.err = "ok"
    /\ helper = "none"

\* C25 as stated: once close() has succeeded, the transfer is never
\* initialized or submitted again; stated for the call that follows the
\* close().
C25_ClosedIsTerminal ==
    [][(last.op = "close" /\ last.err = "ok") =>
        (~initialized' /\ ~submitted')]_vars

\* C25 as amended: after a successful close() the transfer is not
\* initialized, not submitted and has no callback; setCallback and submit
\* leave it so (submit raises ValueError), and setControl, setBulk or
\* setInterrupt make it initialized again.
C25_ClosedUntilSetup ==
    [][(last.op = "close" /\ last.err = "ok") =>
        /\ ~initialized /\ ~submitted /\ callback = None
        /\ last'.op \in {"submit", "Helper_submit"} =>
              (last'.err = "ValueError" /\ ~initialized' /\ ~submitted')
        /\ last'.op = "setCallback" =>
              (last'.err = "ok" /\ ~initialized' /\ ~submitted')
        /\ last'.op \in Configure =>
              (last'.err = "ok" /\ initialized' /\ ~submitted')]_vars

\* C25 witness: a transfer that had been set up for interrupt use was
\* closed.
C25_Witness ==
    /\ last.op = "close"
    /\ last.err = "ok"
    /\ xfer_type = "interrupt"
    /\ ~initialized
    /\ helper = "none"

\* C26 as stated: while a helper constructed on the transfer is alive,
\* every completion of the transfer is handed to the helper's dispatcher.
C26_CompletionsReachDispatcher ==
    [][(last'.op = "callbackWrapper" /\ helper = "alive") =>
        callback = "dispatcher"]_vars

\* C26 as amended: the constructor of a helper makes its dispatcher the
\* transfer's callback; it stays the callback until an accepted setControl,
\* setBulk, setInterrupt, setCallback or close() on the transfer replaces
\* it; as long as it is the callback a completion is handed to the callback
\* the dispatcher selects; after a replacement by None the helper's
\* submit() raises ValueError.
C26_DispatcherUntilReplaced ==
    [][/\ (last'.op = "Helper_init" /\ last'.err = "ok") =>
            callback' = "dispatcher"
       /\ (callback = "dispatcher" /\ callback' # "dispatcher") =>
            /\ last'.op \in Configure \cup {"setCallback", "close"}
            /\ last'.err = "ok"
       /\ (last'.op = "callbackWrapper" /\ callback = "dispatcher") =>
            last'.invoked = dispatch_target(xfer_status')
       /\ (last'.op = "Helper_submit" /\ callback = None) =>
            (last'.err = "ValueError" /\ UNCHANGED submitted)]_vars

\* C26 witness: a helper was constructed, the transfer set up without a
\* callback argument, and the helper's submit() raised ValueError.
C26_Witness ==
    /\ helper = "alive"
    /\ initialized
    /\ callback = None
    /\ last.op = "Helper_submit"
    /\ last.err = "ValueError"

\* C28: when the native layer calls the trampoline of a transfer, the
\* transfer's __callback is not None.
C28_DeliveredToCallback ==
    [][last'.op = "callbackWrapper" => callback # None]_vars

\* C21: USBPoller.__del__ leaves the context with no notifiers, and the
\* context never notifies a poller that is destroyed: a notification runs
\* the handler of a constructed poller or none.
C21_DelClearsNotifiers ==
    /\ [][plast'.op = "USBPoller_del" =>
            (notifiers' = None /\ ~constructed'[plast'.bridge])]_vars
    /\ [](notifiers # None => constructed[notifiers])
    /\ [][(plast'.op \in {"pollfd_added", "pollfd_removed"}
             /\ plast'.bridge # None) => constructed[plast'.bridge]]_vars

\* C21 witness: a poller was destroyed and the native engine then added a
\* descriptor without notifying anyone.
C21_Witness ==
    /\ plast.op = "pollfd_added"
    /\ plast.bridge = None
    /\ plast.calls = <<>>
    /\ ~constructed["b1"]
    /\ fd_set["b1"] # {}
    /\ DOMAIN ctx_fds # fd_set["b1"]

\* C29: the __del__ of a poller that the context does not notify leaves
\* the notifiers with the poller the context does notify.
C29_OlderDelKeepsNewer ==
    [][(plast'.op = "USBPoller_del" /\ notifiers # None
          /\ notifiers # plast'.bridge) => notifiers' = notifiers]_vars

\* C30 as stated: every descriptor of a constructed poller's __fd_set is
\* registered with its multiplexer, and after a removed notification the
\* descriptor is in neither.
C30_FdSetRegistered ==
    /\ \A b \in Bridges : constructed[b] => fd_set[b] \subseteq DOMAIN mux[b]
    /\ (plast.op = "pollfd_removed" /\ plast.bridge # None) =>
          /\ plast.fd \notin fd_set[plast.bridge]
          /\ plast.fd \notin DOMAIN mux[plast.bridge]

\* C30 as amended: every step other than an unregister() of a descriptor
\* of __fd_set keeps every descriptor of __fd_set registered with the
\* multiplexer, and a removed notification for a descriptor the
\* multiplexer holds leaves it in neither; __fd_set is empty at first.
C30_FdSetRegisteredUnlessUnregistered ==
    /\ \A b \in Bridges : ~constructed[b] => fd_set[b] = {}
    /\ [][/\ \A b \in Bridges :
               (/\ fd_set[b] \subseteq DOMAIN mux[b]
                /\ ~(plast'.op = "unregister" /\ plast'.bridge = b
                       /\ plast'.fd \in fd_set[b]))
               => fd_set'[b] \subseteq DOMAIN mux'[b]
          /\ (plast'.op = "pollfd_removed" /\ plast'.bridge # None
                /\ plast'.fd \in DOMAIN mux[plast'.bridge]) =>
               /\ plast'.fd \notin fd_set'[plast'.bridge]
               /\ plast'.fd \notin DOMAIN mux'[plast'.bridge]]_vars

\* C30 witness: the caller changed the flags of a descriptor of __fd_set
\* through register(); both descriptors of __fd_set are still registered.
C30_Witness ==
    /\ plast.op = "register"
    /\ plast.fd = 3
    /\ plast.flags = "POLLOUT"
    /\ fd_set["b1"] = {3, 4}
    /\ DOMAIN mux["b1"] = {3, 4, 5}
    /\ ctx_fds[3] = "POLLIN"

\* C22: USBTransfer.__del__ of an instance that holds a native transfer
\* calls libusb_cancel_transfer and then frees the native transfer, once,
\* whatever the cancel returned: 0 and "not found" surface no error, any
\* other result is raised as USBError with the transfer freed; nothing else
\* frees it and nothing follows the free.
C22_DelFreesOnce ==
    [][/\ last'.op = "Transfer_del" =>
            /\ transfer_p = "allocated" /\ transfer_p' = "freed"
            /\ last'.native = "cancel"
            /\ last'.nret \in {0, LIBUSB_ERROR_NOT_FOUND} => last'.err = "ok"
            /\ last'.nret \notin {0, LIBUSB_ERROR_NOT_FOUND} =>
                  (last'.err = "USBError" /\ last'.code = last'.nret)
       /\ transfer_p' # transfer_p => last'.op = "Transfer_del"
       /\ transfer_p = "freed" => transfer_p' = "freed"]_vars

\* C22 witness: the transfer was destroyed while in flight, the native
\* cancel failed with "no device", and the native transfer is freed.
C22_Witness ==
    /\ last.op = "Transfer_del"
    /\ last.err = "USBError"
    /\ last.code = LIBUSB_ERROR_NO_DEVICE
    /\ inflight
    /\ transfer_p = "freed"

C27_CancelEventuallyDelivered ==
    (constructed["b1"] /\ last.op = "cancel" /\ last.err = "ok" /\ inflight)
        ~> (last.op = "callbackWrapper" /\ last.invoked # "none")

\* C31: the native transfer is never freed while the native layer holds an
\* accepted operation on it that has not completed, and so no completion
\* is ever delivered for a freed transfer.
C31_FreedOnlyWhenNotHeld ==
    transfer_p = "freed" =>
        (~inflight /\ last.op # "callbackWrapper_freed")

====
